---- MODULE Spec2Model ----
(***************************************************************************)
(* The playback session engine of bot.py: one guild (room), the            *)
(* Music.voice_states registry entry for it, the VoiceState objects that   *)
(* were ever created for it, each with its audio_player_task, the voice    *)
(* client (AudioSink) it drives, and the commands of the Music cog.        *)
(*                                                                         *)
(* Everything runs on one asyncio event loop, so an action is the code     *)
(* that runs between two suspension points (awaits that really suspend).   *)
(* The voice client's player thread calls the `after` callback when its    *)
(* Song ends, in the step that ends it.                                    *)
(***************************************************************************)
EXTENDS Integers, Sequences, FiniteSets, TLC

\* ---- bounds of the model
MaxSessions == 2     \* VoiceState objects ever constructed for the guild
MaxCmds     == 2     \* commands suspended in an await at the same time
MaxInvoked  == 3     \* commands ever invoked
MaxTracks   == 3     \* Songs ever enqueued
MaxPlays    == 3     \* voice.play calls ever logged
MaxTimeouts == 2     \* 180 s queue-wait timeouts ever taken

\* ---- program constants
DefaultVolume == 50  \* self._volume = 0.5, kept in hundredths

Sessions == 1..MaxSessions
\* the awaits a command can be suspended in
Kinds    == {"join", "leave", "skip", "play_join", "play_resolve"}
\* arguments tried for the volume command (percent)
Volumes  == {-1, 0, 100, 150}
\* arguments tried for the dequeue command (1-based index)
Indices  == -1 .. MaxTracks + 1

VARIABLES
    voice_states,   \* Music.voice_states[guild.id]: 0 when absent, else the VoiceState
    created,        \* how many VoiceState objects were constructed (they are 1..created)
    vs,             \* the VoiceState objects, with their voice client and what was observed
    cmd,            \* the commands suspended in an await: how many per await and ctx.voice_state
    invoked,        \* how many commands were invoked
    raised,         \* whether the most recent step raised into its caller (KeyError, line 175)
    said            \* what the most recent step reported with ctx.send instead of acting, or ""

vars == <<voice_states, created, vs, cmd, invoked, raised, said>>

\* A VoiceState that was not constructed yet.
NoState ==
    [ \* fields of VoiceState
      current |-> 0, voice |-> FALSE, next |-> FALSE, songs |-> <<>>,
      loop |-> FALSE, volume |-> DefaultVolume,
      \* where audio_player_task is suspended
      pc |-> "none",
      \* stop() tasks made by the player: not started yet, suspended in disconnect
      stopQ |-> 0, stopD |-> 0,
      \* the voice client: connected, its player ("none", "playing" or "paused")
      connected |-> FALSE, player |-> "none",
      \* observations: Songs handed to voice.play, Songs enqueued, timeouts taken,
      \* the callback raised, an iteration raised, a leave finished, the queue order
      \* was interfered with (clear, stop, loop), the stop command stopped the Song
      \* and nothing was enqueued since, the Songs a command took out of the queue
      plays |-> <<>>, enq |-> 0, timeouts |-> 0, afterErr |-> FALSE,
      fault |-> FALSE, left |-> FALSE, disturbed |-> FALSE,
      halted |-> FALSE, removed |-> {} ]

\* VoiceState.__init__: the player task is created and runs from its first line
\* when the event loop schedules it.
VoiceState == [NoState EXCEPT !.pc = "start"]

Init ==
    /\ voice_states = 0
    /\ created = 0
    /\ vs = [s \in Sessions |-> NoState]
    /\ cmd = [k \in Kinds, s \in Sessions |-> 0]
    /\ invoked = 0
    /\ raised = FALSE
    /\ said = ""

\* A step that neither raises into its caller nor reports.
Quiet == raised' = FALSE /\ said' = ""

\* A step that reports msg with ctx.send and does nothing else.
Says(msg) == raised' = FALSE /\ said' = msg

\* What the bounds count, over all VoiceStates.
Enqueued == LET RECURSIVE sum(_)
                sum(n) == IF n = 0 THEN 0 ELSE vs[n].enq + sum(n - 1)
            IN sum(MaxSessions)
Played   == LET RECURSIVE sum(_)
                sum(n) == IF n = 0 THEN 0 ELSE Len(vs[n].plays) + sum(n - 1)
            IN sum(MaxSessions)
TimedOut == LET RECURSIVE sum(_)
                sum(n) == IF n = 0 THEN 0 ELSE vs[n].timeouts + sum(n - 1)
            IN sum(MaxSessions)

\* VoiceState.is_playing
is_playing(r) == r.voice /\ r.current # 0

\* ---- the voice client (AudioSink)

\* play_next_song(error), lines 103-107, the `after` callback the player thread
\* calls once when its Song ends: it raises on an error, before next.set().
play_next_song(r, error) ==
    IF error THEN [r EXCEPT !.afterErr = TRUE] ELSE [r EXCEPT !.next = TRUE]

\* voice.stop(): the player, if any, ends and calls after(None).
SinkStop(r) ==
    IF r.player # "none" THEN play_next_song([r EXCEPT !.player = "none"], FALSE) ELSE r

\* voice.disconnect(), up to its first suspension: stops the player, drops the connection.
SinkDisconnect(r) == [SinkStop(r) EXCEPT !.connected = FALSE]

\* voice.play(source, after=...) succeeds on an attached, connected client with no player.
SinkCanPlay(r) == r.voice /\ r.connected /\ r.player = "none"

\* ---- audio_player_task, from one suspension point to the next

\* Lines 92-96: set the volume, voice.play, then await the now-playing send;
\* an exception (no current Song, no voice client, client not connected)
\* lands in the handler, which awaits ctx.send.
PlayCurrent(r) ==
    IF r.current # 0 /\ SinkCanPlay(r)
    THEN [r EXCEPT !.player = "playing", !.plays = Append(@, r.current), !.pc = "notify"]
    ELSE [r EXCEPT !.fault = TRUE, !.pc = "report"]

\* Line 86: self.current = await self.songs.get(), on a queue that holds a Song
\* (asyncio.Queue.get of the media module's SongQueue: the oldest Song is removed).
TakeSong(r) == [r EXCEPT !.current = Head(r.songs), !.songs = Tail(r.songs)]

\* Top with `if not self.current` for `if not self.loop`: replays whenever a Song is current.
TopKeepsCurrent(r) ==
    LET r1 == [r EXCEPT !.next = FALSE, !.afterErr = FALSE, !.fault = FALSE] IN
    IF r1.current # 0 THEN PlayCurrent(r1)
    ELSE IF r1.songs # <<>>
         THEN PlayCurrent(TakeSong(r1))
         ELSE [r1 EXCEPT !.pc = "get"]

\* Top without the loop flag: every iteration takes the next Song from the queue.
TopIgnoresLoop(r) ==
    LET r1 == [r EXCEPT !.next = FALSE, !.afterErr = FALSE, !.fault = FALSE] IN
    IF r1.songs # <<>>
    THEN PlayCurrent(TakeSong(r1))
    ELSE [r1 EXCEPT !.pc = "get"]

\* Top without next.clear(): a signal that was set stays set.
TopKeepsSignal(r) ==
    LET r1 == [r EXCEPT !.afterErr = FALSE, !.fault = FALSE] IN
    IF r1.loop THEN PlayCurrent(r1)
    ELSE IF r1.songs # <<>>
         THEN PlayCurrent(TakeSong(r1))
         ELSE [r1 EXCEPT !.pc = "get"]

\* Lines 75-86: the head of an iteration. next.clear(); with the loop flag the
\* current Song is replayed, otherwise the next Song is taken from the queue, or
\* the task suspends in songs.get() under the 180 s timeout.
Top(r) ==
    LET r1 == [r EXCEPT !.next = FALSE, !.afterErr = FALSE, !.fault = FALSE] IN
    IF r1.loop THEN PlayCurrent(r1)
    ELSE IF r1.songs # <<>>
         THEN PlayCurrent(TakeSong(r1))
         ELSE [r1 EXCEPT !.pc = "get"]

\* Line 101: await self.next.wait() returns at once when the event is set,
\* and the next iteration runs without a suspension in between.
WaitNext(r) == IF r.next THEN Top(r) ELSE [r EXCEPT !.pc = "wait"]

\* The play log is bounded: the player takes no step that would log more than MaxPlays plays.
WithinLog == Played' <= MaxPlays

\* The task's first run.
AudioPlayerStart(s) ==
    /\ vs[s].pc = "start"
    /\ vs' = [vs EXCEPT ![s] = Top(@)]
    /\ WithinLog
    /\ Quiet
    /\ UNCHANGED <<voice_states, created, cmd, invoked>>

\* songs.get() handing over the oldest Song without taking it out of the queue.
GetSongKeepsQueue(s) ==
    /\ vs[s].pc = "get"
    /\ vs[s].songs # <<>>
    /\ vs' = [vs EXCEPT ![s] = PlayCurrent([vs[s] EXCEPT !.current = Head(vs[s].songs)])]
    /\ WithinLog
    /\ Quiet
    /\ UNCHANGED <<voice_states, created, cmd, invoked>>

\* songs.get() returns a Song (lines 86, 92-96).
GetSong(s) ==
    /\ vs[s].pc = "get"
    /\ vs[s].songs # <<>>
    /\ vs' = [vs EXCEPT ![s] = PlayCurrent(TakeSong(@))]
    /\ WithinLog
    /\ Quiet
    /\ UNCHANGED <<voice_states, created, cmd, invoked>>

\* Lines 87-90: asyncio.TimeoutError after 180 s on an empty queue: a task running
\* stop() is created, and `continue` starts the next iteration of while True.
Timeout(s) ==
    /\ vs[s].pc = "get"
    /\ vs[s].songs = <<>>
    /\ TimedOut < MaxTimeouts
    /\ vs' = [vs EXCEPT ![s] = Top([@ EXCEPT !.stopQ = @ + 1, !.timeouts = @ + 1])]
    /\ WithinLog
    /\ Quiet
    /\ UNCHANGED <<voice_states, created, cmd, invoked>>

\* Lines 94-101: the now-playing send returns, or raises into the handler.
Notify(s, ok) ==
    /\ vs[s].pc = "notify"
    /\ vs' = [vs EXCEPT ![s] = IF ok THEN WaitNext(@)
                                ELSE [@ EXCEPT !.fault = TRUE, !.pc = "report"]]
    /\ WithinLog
    /\ Quiet
    /\ UNCHANGED <<voice_states, created, cmd, invoked>>

\* Lines 97-101: the handler's ctx.send returns; then await self.next.wait().
Report(s) ==
    /\ vs[s].pc = "report"
    /\ vs' = [vs EXCEPT ![s] = WaitNext(@)]
    /\ WithinLog
    /\ Quiet
    /\ UNCHANGED <<voice_states, created, cmd, invoked>>

\* Line 101: the task, suspended in next.wait(), is woken by next.set().
Resume(s) ==
    /\ vs[s].pc = "wait"
    /\ vs[s].next
    /\ vs' = [vs EXCEPT ![s] = Top(@)]
    /\ WithinLog
    /\ Quiet
    /\ UNCHANGED <<voice_states, created, cmd, invoked>>

\* ---- the voice client's player thread

\* The Song ends by itself, with or without an error, and the thread calls `after`.
SinkFinish(s, err) ==
    /\ vs[s].player = "playing"
    /\ vs' = [vs EXCEPT ![s] = play_next_song([@ EXCEPT !.player = "none"], err)]
    /\ Quiet
    /\ UNCHANGED <<voice_states, created, cmd, invoked>>

\* ---- VoiceState.stop(), lines 115-120

\* Observation: a command (stop, leave, dequeue) takes the Songs of q out of the queue.
ByCommand(r, q) == [r EXCEPT !.removed = @ \cup {q[i] : i \in 1..Len(q)}]

\* Line 118: if self.voice
HasVoice(r) == r.voice

\* songs.clear(), line 116 (SongQueue.clear of the media module).
ClearSongs(r) == [r EXCEPT !.songs = <<>>, !.disturbed = TRUE]

\* A stop() task made by the player starts: it clears the queue and, with a voice
\* client, suspends in voice.disconnect(); without one it is finished.
StopTaskBegin(s) ==
    /\ vs[s].stopQ > 0
    /\ LET r1 == [ClearSongs(vs[s]) EXCEPT !.stopQ = @ - 1] IN
       IF HasVoice(r1)
       THEN vs' = [vs EXCEPT ![s] = [SinkDisconnect(r1) EXCEPT !.stopD = @ + 1]]
       ELSE vs' = [vs EXCEPT ![s] = r1]
    /\ Quiet
    /\ UNCHANGED <<voice_states, created, cmd, invoked>>

\* Line 120: disconnect returned, self.voice = None.
StopTaskEnd(s) ==
    /\ vs[s].stopD > 0
    /\ vs' = [vs EXCEPT ![s].stopD = @ - 1, ![s].voice = FALSE]
    /\ Quiet
    /\ UNCHANGED <<voice_states, created, cmd, invoked>>

\* ---- Music.get_voice_state, lines 128-134, run by cog_before_invoke (148-149)
\* right before each command body, with no suspension in between.

\* get_voice_state without `if not state`: a VoiceState is made on every call.
get_voice_state_always_new ==
    IF created >= MaxSessions
    THEN [state |-> voice_states, created |-> created, states |-> vs]
    ELSE [state |-> created + 1, created |-> created + 1,
          states |-> [vs EXCEPT ![created + 1] = VoiceState]]

get_voice_state ==
    IF voice_states # 0
    THEN [state |-> voice_states, created |-> created, states |-> vs]
    ELSE [state |-> created + 1, created |-> created + 1,
          states |-> [vs EXCEPT ![created + 1] = VoiceState]]

\* A command can be invoked while a VoiceState is registered or one more can be made.
CanInvoke ==
    /\ invoked < MaxInvoked
    /\ voice_states # 0 \/ created < MaxSessions

\* The registry after cog_before_invoke.
Invoked(g) ==
    /\ voice_states' = g.state
    /\ created' = g.created
    /\ invoked' = invoked + 1

\* Commands suspended in an await.
InFlight ==
    LET RECURSIVE sum(_)
        sum(S) == IF S = {} THEN 0
                  ELSE LET x == CHOOSE y \in S : TRUE IN cmd[x] + sum(S \ {x})
    IN sum(Kinds \X Sessions)

CanSuspend == InFlight < MaxCmds

\* The command suspends in await `kind`; it resumes into await `kind2`; it returns.
Suspend(kind, s) == cmd' = [cmd EXCEPT ![kind, s] = @ + 1]
Move(kind, kind2, s) == cmd' = [cmd EXCEPT ![kind, s] = @ - 1, ![kind2, s] = @ + 1]
Return(kind, s) == cmd' = [cmd EXCEPT ![kind, s] = @ - 1]

\* ---- join, lines 156-165

\* With a voice client the command moves it and returns; otherwise it suspends
\* in destination.connect().
Music_join ==
    /\ CanInvoke
    /\ CanSuspend
    /\ LET g == get_voice_state IN
       /\ Invoked(g)
       /\ vs' = g.states
       /\ IF g.states[g.state].voice
          THEN UNCHANGED cmd
          ELSE Suspend("join", g.state)
    /\ Quiet

\* Line 165: connect returned, the voice client is stored.
Music_join_connected(s) ==
    /\ cmd["join", s] > 0
    /\ vs' = [vs EXCEPT ![s].voice = TRUE, ![s].connected = TRUE]
    /\ Return("join", s)
    /\ Quiet
    /\ UNCHANGED <<voice_states, created, invoked>>

\* ---- leave, lines 167-175

\* leave without its check of the voice client.
NotConnectedUnchecked(r) == FALSE

\* Line 171: if not ctx.voice_state.voice
NotConnected(r) == ~r.voice

\* Without a voice client the command reports and returns. Otherwise it runs
\* stop(): the queue is cleared and, with a voice client, the command suspends in
\* disconnect; a stop() that does not suspend is followed at once by line 175.
Music_leave ==
    /\ CanInvoke
    /\ CanSuspend
    /\ LET g == get_voice_state
           r == g.states[g.state] IN
       IF NotConnected(r)
       THEN /\ Invoked(g)
            /\ vs' = g.states
            /\ UNCHANGED cmd
            /\ Says("Not connected to any voice channel.")
       ELSE LET r1 == ByCommand(ClearSongs(r), r.songs) IN
            IF HasVoice(r1)
            THEN /\ Invoked(g)
                 /\ vs' = [g.states EXCEPT ![g.state] = SinkDisconnect(r1)]
                 /\ Suspend("leave", g.state)
                 /\ Quiet
            ELSE /\ voice_states' = 0
                 /\ created' = g.created
                 /\ invoked' = invoked + 1
                 /\ vs' = [g.states EXCEPT ![g.state] = [r1 EXCEPT !.left = TRUE]]
                 /\ UNCHANGED cmd
                 /\ Quiet

\* Lines 120 and 175: disconnect returned; self.voice = None, then
\* del self.voice_states[ctx.guild.id], a KeyError when the entry is gone.
Music_leave_done(s) ==
    /\ cmd["leave", s] > 0
    /\ vs' = [vs EXCEPT ![s].voice = FALSE, ![s].left = TRUE]
    /\ Return("leave", s)
    /\ voice_states' = 0
    /\ raised' = (voice_states = 0)
    /\ said' = ""
    /\ UNCHANGED <<created, invoked>>

\* ---- volume, lines 177-188

\* Line 184: if 0 > volume > 100
VolumeOutOfRange(v) == 0 > v /\ v > 100

\* Not playing: reports. Out of range: reports. Otherwise stores volume / 100.
Music_volume(v) ==
    /\ CanInvoke
    /\ LET g == get_voice_state
           r == g.states[g.state] IN
       /\ Invoked(g)
       /\ IF ~is_playing(r)
          THEN vs' = g.states /\ Says("Nothing being played at the moment.")
          ELSE IF VolumeOutOfRange(v)
               THEN vs' = g.states /\ Says("Volume must be between 0 and 100")
               ELSE vs' = [g.states EXCEPT ![g.state].volume = v] /\ Quiet
    /\ UNCHANGED cmd

\* ---- stop, lines 212-220

\* The stop command running VoiceState.stop(): the voice client is disconnected and dropped.
Music_stop_disconnects ==
    /\ CanInvoke
    /\ LET g == get_voice_state
           r1 == ByCommand(ClearSongs(g.states[g.state]), g.states[g.state].songs) IN
       /\ Invoked(g)
       /\ vs' = [g.states EXCEPT ![g.state] =
                    IF HasVoice(r1) THEN [SinkDisconnect(r1) EXCEPT !.voice = FALSE] ELSE r1]
    /\ Quiet
    /\ UNCHANGED cmd

\* The queue is cleared; if is_playing, voice.stop() (the reaction is added afterwards).
Music_stop ==
    /\ CanInvoke
    /\ LET g == get_voice_state
           r1 == ByCommand(ClearSongs(g.states[g.state]), g.states[g.state].songs) IN
       /\ Invoked(g)
       /\ vs' = [g.states EXCEPT ![g.state] =
                    IF is_playing(r1) THEN [SinkStop(r1) EXCEPT !.halted = TRUE] ELSE r1]
    /\ Quiet
    /\ UNCHANGED cmd

\* ---- pause and resume, lines 196-210

\* voice.is_playing(), voice.is_paused(), voice.pause(), voice.resume()
SinkIsPlaying(r) == r.player = "playing"
SinkIsPaused(r) == r.player = "paused"
SinkPause(r) == IF r.player = "playing" THEN [r EXCEPT !.player = "paused"] ELSE r
SinkResume(r) == IF r.player = "paused" THEN [r EXCEPT !.player = "playing"] ELSE r

\* Line 199: if not ctx.voice_state.is_playing and ctx.voice_state.voice.is_playing().
\* `not` binds to is_playing alone; the second operand is evaluated only when the
\* first is true, and raises AttributeError when voice is None.
Music_pause ==
    /\ CanInvoke
    /\ LET g == get_voice_state
           r == g.states[g.state] IN
       /\ Invoked(g)
       /\ IF is_playing(r)
          THEN vs' = g.states /\ Quiet
          ELSE IF ~r.voice
               THEN vs' = g.states /\ raised' = TRUE /\ said' = ""
               ELSE /\ vs' = [g.states EXCEPT ![g.state] =
                                 IF SinkIsPlaying(r) THEN SinkPause(r) ELSE r]
                    /\ Quiet
    /\ UNCHANGED cmd

\* Line 207: if not ctx.voice_state.is_playing and ctx.voice_state.voice.is_paused()
Music_resume ==
    /\ CanInvoke
    /\ LET g == get_voice_state
           r == g.states[g.state] IN
       /\ Invoked(g)
       /\ IF is_playing(r)
          THEN vs' = g.states /\ Quiet
          ELSE IF ~r.voice
               THEN vs' = g.states /\ raised' = TRUE /\ said' = ""
               ELSE /\ vs' = [g.states EXCEPT ![g.state] =
                                 IF SinkIsPaused(r) THEN SinkResume(r) ELSE r]
                    /\ Quiet
    /\ UNCHANGED cmd

\* ---- skip, lines 222-234 and VoiceState.skip, lines 109-113

\* The skip command without its is_playing check.
Music_skip_unchecked ==
    /\ CanInvoke
    /\ CanSuspend
    /\ LET g == get_voice_state IN
       /\ Invoked(g)
       /\ vs' = g.states
       /\ Suspend("skip", g.state)
    /\ Quiet

\* Not playing: reports. Otherwise the command suspends adding its reaction.
Music_skip ==
    /\ CanInvoke
    /\ CanSuspend
    /\ LET g == get_voice_state IN
       /\ Invoked(g)
       /\ vs' = g.states
       /\ IF ~is_playing(g.states[g.state])
          THEN UNCHANGED cmd /\ Says("Not playing any music right now...")
          ELSE Suspend("skip", g.state) /\ Quiet

\* VoiceState.skip() that also drops the current Song.
skip_drops_current(r) == IF is_playing(r) THEN [SinkStop(r) EXCEPT !.current = 0] ELSE r

\* VoiceState.skip(): voice.stop() if is_playing.
skip(r) == IF is_playing(r) THEN SinkStop(r) ELSE r

Music_skip_done(s) ==
    /\ cmd["skip", s] > 0
    /\ vs' = [vs EXCEPT ![s] = skip(@)]
    /\ Return("skip", s)
    /\ Quiet
    /\ UNCHANGED <<voice_states, created, invoked>>

\* ---- shuffle, lines 277-285, and dequeue, lines 287-298

\* The orders songs.shuffle() can leave the queue in: its permutations.
Shuffles(q) ==
    { p \in [1..Len(q) -> {q[i] : i \in 1..Len(q)}] :
        \A i, j \in 1..Len(q) : i # j => p[i] # p[j] }

\* Empty queue: reports. Otherwise the queue is shuffled.
Music_shuffle ==
    /\ CanInvoke
    /\ LET g == get_voice_state
           r == g.states[g.state] IN
       /\ Invoked(g)
       /\ IF Len(r.songs) = 0
          THEN vs' = g.states /\ Says("Empty queue.")
          ELSE /\ \E p \in Shuffles(r.songs) :
                    vs' = [g.states EXCEPT ![g.state].songs = p,
                                           ![g.state].disturbed = TRUE]
               /\ Quiet
    /\ UNCHANGED cmd

\* dequeue passing the user's index on as it is.
RemoveIndexAsGiven(index) == index

\* Line 297: songs.remove(index - 1)
RemoveIndex(index) == index - 1

\* SongQueue.remove(i) of the media module, as removeAt of the Queue contract:
\* OutOfRange unless 0 <= i < length, else the Song at 0-based position i is removed.
InRange(q, i) == 0 <= i /\ i < Len(q)
removeAt(q, i) == SubSeq(q, 1, i) \o SubSeq(q, i + 2, Len(q))

\* Empty queue: reports. Otherwise songs.remove(index - 1), which raises when
\* out of range; the reaction is added afterwards.
Music_remove(index) ==
    /\ CanInvoke
    /\ LET g == get_voice_state
           r == g.states[g.state]
           i == RemoveIndex(index) IN
       /\ Invoked(g)
       /\ IF Len(r.songs) = 0
          THEN vs' = g.states /\ Says("Empty queue.")
          ELSE IF InRange(r.songs, i)
               THEN /\ vs' = [g.states EXCEPT ![g.state] =
                                 ByCommand([r EXCEPT !.songs = removeAt(@, i),
                                                      !.disturbed = TRUE],
                                           <<r.songs[i + 1]>>)]
                    /\ Quiet
               ELSE vs' = g.states /\ raised' = TRUE /\ said' = ""
    /\ UNCHANGED cmd

\* ---- loop, lines 300-311

\* Not playing: reports. Otherwise the loop flag is inverted.
Music_loop ==
    /\ CanInvoke
    /\ LET g == get_voice_state
           r == g.states[g.state] IN
       /\ Invoked(g)
       /\ IF ~is_playing(r)
          THEN vs' = g.states /\ Says("Nothing being played at the moment.")
          ELSE /\ vs' = [g.states EXCEPT ![g.state].loop = ~r.loop,
                                         ![g.state].disturbed = TRUE]
               /\ Quiet
    /\ UNCHANGED cmd

\* ---- play, lines 313-336

\* Lines 322-327: without a voice client the command invokes join and suspends
\* in connect; with one it suspends in YTDLSource.create_source.
Music_play ==
    /\ CanInvoke
    /\ CanSuspend
    /\ LET g == get_voice_state IN
       /\ Invoked(g)
       /\ vs' = g.states
       /\ Suspend(IF g.states[g.state].voice THEN "play_resolve" ELSE "play_join", g.state)
    /\ Quiet

Music_play_joined(s) ==
    /\ cmd["play_join", s] > 0
    /\ vs' = [vs EXCEPT ![s].voice = TRUE, ![s].connected = TRUE]
    /\ Move("play_join", "play_resolve", s)
    /\ Quiet
    /\ UNCHANGED <<voice_states, created, invoked>>

\* songs.put(song), line 335 (asyncio.Queue.put of the media module's SongQueue):
\* a new Song is appended. Songs are numbered in the order they are enqueued.
PutSong(r) == [r EXCEPT !.songs = Append(@, r.enq + 1), !.enq = @ + 1, !.halted = FALSE]

\* Lines 327-336: create_source returned a source, which is enqueued, or raised
\* YTDLError, which is reported.
Music_play_resolved(s, ok) ==
    /\ cmd["play_resolve", s] > 0
    /\ IF ok
       THEN /\ Enqueued < MaxTracks
            /\ vs' = [vs EXCEPT ![s] = PutSong(@)]
       ELSE UNCHANGED vs
    /\ Return("play_resolve", s)
    /\ Quiet
    /\ UNCHANGED <<voice_states, created, invoked>>

\* ---- VoiceState.__del__, lines 51-52

\* The object can be reclaimed only when nothing refers to it: it is out of the
\* registry, no command holds it as ctx.voice_state, no stop() task runs on it,
\* and its player task is not referred to by the event loop (no timer of the
\* queue wait, no wake-up scheduled) nor by a player thread's callback.
Unreferenced(s) ==
    /\ voice_states # s
    /\ \A k \in Kinds : cmd[k, s] = 0
    /\ vs[s].stopQ = 0 /\ vs[s].stopD = 0
    /\ vs[s].pc = "wait" /\ ~vs[s].next
    /\ vs[s].player = "none"

\* Garbage collection runs __del__, which cancels the player task.
Finalize(s) ==
    /\ Unreferenced(s)
    /\ vs' = [vs EXCEPT ![s].pc = "cancelled"]
    /\ Quiet
    /\ UNCHANGED <<voice_states, created, cmd, invoked>>

\* ---- the system

Player(s) ==
    \/ AudioPlayerStart(s)
    \/ GetSong(s)
    \/ Timeout(s)
    \/ \E ok \in BOOLEAN : Notify(s, ok)
    \/ Report(s)
    \/ Resume(s)
    \/ StopTaskBegin(s)
    \/ StopTaskEnd(s)
    \/ Finalize(s)

Sink(s) ==
    \E err \in BOOLEAN : SinkFinish(s, err)

Command ==
    \/ Music_join
    \/ Music_leave
    \/ Music_stop
    \/ Music_skip
    \/ Music_loop
    \/ Music_play

Resumed(s) ==
    \/ Music_join_connected(s)
    \/ Music_leave_done(s)
    \/ Music_skip_done(s)
    \/ Music_play_joined(s)
    \/ \E ok \in BOOLEAN : Music_play_resolved(s, ok)

Next ==
    \/ \E s \in Sessions : Player(s)
    \/ \E s \in Sessions : Sink(s)
    \/ \E s \in Sessions : Resumed(s)
    \/ Command

Spec == Init /\ [][Next]_vars

\* The same system with the volume command.
NextVolume ==
    \/ Next
    \/ \E v \in Volumes : Music_volume(v)

SpecVolume == Init /\ [][NextVolume]_vars

\* The system under the event loop's scheduling: a task that can run does run, a
\* timer that expired fires, an await that can return returns, and the voice
\* client plays every Song to its end. Commands are invoked or not.
SpecFair ==
    /\ Spec
    /\ \A s \in Sessions :
          /\ WF_vars(Player(s))
          /\ WF_vars(Resumed(s))
          /\ WF_vars(SinkFinish(s, FALSE))

\* The same system with the pause and resume commands.
NextPause ==
    \/ Next
    \/ Music_pause
    \/ Music_resume

SpecPause == Init /\ [][NextPause]_vars

\* The same system with the shuffle and dequeue commands.
NextQueue ==
    \/ Next
    \/ Music_shuffle
    \/ \E index \in Indices : Music_remove(index)

SpecQueue == Init /\ [][NextQueue]_vars

\* The system with every command.
NextCommands ==
    \/ NextQueue
    \/ \E v \in Volumes : Music_volume(v)
    \/ Music_pause
    \/ Music_resume

SpecCommands == Init /\ [][NextCommands]_vars

\* ---- what the claims are stated with

\* The VoiceState was constructed.
Exists(s) == vs[s].pc # "none"

\* The fields of a VoiceState and of its voice client.
SessionState(r) ==
    <<r.current, r.voice, r.next, r.songs, r.loop, r.volume, r.connected, r.player>>

\* The player task is suspended in next.wait() with the event clear and no player
\* left to call play_next_song: nothing can set the event any more.
Stalled(s) == vs[s].pc = "wait" /\ ~vs[s].next /\ vs[s].player = "none"

\* No stop() task made by the player is waiting or running.
TeardownDone(s) == vs[s].stopQ = 0 /\ vs[s].stopD = 0

\* The Session is stopped: queue empty, nothing playing, voice client detached.
Stopped(s) == Exists(s) /\ vs[s].songs = <<>> /\ ~vs[s].voice /\ vs[s].player = "none"

\* The Songs in a queue or a log.
Range(q) == {q[i] : i \in 1..Len(q)}

\* <<1, ..., n>>
SeqTo(n) == [i \in 1..n |-> i]

\* This step hands a Song to voice.play on s.
PlayedNow(s) == Len(vs'[s].plays) = Len(vs[s].plays) + 1

\* C1. When the queue wait times out, the player initiates teardown exactly once
\* and terminates: after a timeout it is never again suspended in the queue wait
\* and never takes a second timeout with a second teardown.
C1_TimeoutTerminatesLoop ==
    \A s \in Sessions :
        vs[s].timeouts > 0 => vs[s].timeouts = 1 /\ vs[s].pc # "get"

\* C2. After an idle timeout whose teardown has finished, the registry no longer
\* holds that Session, so the next get_voice_state would make a new one.
C2_TimedOutSessionUnregistered ==
    \A s \in Sessions :
        vs[s].timeouts > 0 /\ TeardownDone(s) => voice_states # s

\* C3. A completion callback with an error does not stall the player: it is never
\* left in next.wait() with nothing to set the event.
C3_PlaybackFaultDoesNotStall ==
    \A s \in Sessions : vs[s].afterErr => ~Stalled(s)

\* C4. A fault raised in an iteration before or while starting playback is caught
\* and the player goes on to its next iteration: it is never left, with no
\* playback error involved, in next.wait() with nothing to set the event.
C4_IterationFaultDoesNotStall ==
    \A s \in Sessions : vs[s].fault /\ ~vs[s].afterErr => ~Stalled(s)

\* C5. With the loop flag never set and the queue never cleared, the Songs handed
\* to voice.play, followed by the Songs still queued, are the Songs enqueued, in
\* the order they were enqueued, each once; the current Song is the last one
\* handed over; so when the player is in the queue wait on an empty queue, every
\* enqueued Song has been played in order.
C5_PlaysInEnqueueOrder ==
    \A s \in Sessions :
        ~vs[s].disturbed =>
            /\ vs[s].plays \o vs[s].songs = SeqTo(vs[s].enq)
            /\ vs[s].current = IF vs[s].plays = <<>> THEN 0
                               ELSE vs[s].plays[Len(vs[s].plays)]
            /\ vs[s].pc = "get" /\ vs[s].songs = <<>> => vs[s].plays = SeqTo(vs[s].enq)

\* C5's case: three Songs were enqueued and played in order, and the player waits.
C5_Witness ==
    \E s \in Sessions :
        ~vs[s].disturbed /\ vs[s].plays = <<1, 2, 3>> /\ vs[s].pc = "get"

\* The player reads the loop flag at the head of an iteration: it will replay when
\* the flag is set and it is not already suspended in the queue wait for a Song.
WillReplay(s) == vs[s].loop /\ (vs[s].pc # "get" \/ vs[s].songs = <<>>)

C7_VolumeInRange ==
    \A s \in Sessions : vs[s].volume \in 0..100

\* C8. A VoiceState is constructed only while the registry has no entry for the
\* guild, and it is the one registered; every command invoked while an entry
\* exists gets that entry as its ctx.voice_state.
C8_OneSessionPerRoom ==
    [][/\ created' # created =>
            voice_states = 0 /\ created' = created + 1 /\ voice_states' = created'
       /\ voice_states # 0 /\ invoked' # invoked =>
            /\ voice_states' \in {voice_states, 0}
            /\ \A k \in Kinds, s \in Sessions :
                  cmd'[k, s] > cmd[k, s] => s = voice_states]_vars

\* C8's case: two commands are suspended at once, both holding the registered VoiceState.
C8_Witness ==
    \E s \in Sessions, k1, k2 \in Kinds :
        /\ voice_states = s
        /\ k1 # k2 /\ cmd[k1, s] > 0 /\ cmd[k2, s] > 0
        /\ created = 1

\* C9. Once a leave has finished on a VoiceState its player task takes no further
\* step: no new queue wait, no timeout and teardown, no voice.play.
C9_LeaveEndsPlayer ==
    [][\A s \in Sessions :
        vs[s].left =>
            /\ vs'[s].timeouts = vs[s].timeouts
            /\ vs'[s].plays = vs[s].plays
            /\ vs'[s].pc \in {vs[s].pc, "cancelled"}]_vars

\* C10. stop() (as the player's teardown task), the stop command and the leave
\* command, run on a registered or unregistered VoiceState that is already
\* stopped, raise nothing and change neither the VoiceState, nor the voice
\* client, nor the registry, and leave nothing suspended.
C10_TeardownIdempotent ==
    [][\A s \in Sessions :
        /\ Stopped(s)
        /\ \/ StopTaskBegin(s)
           \/ voice_states = s /\ (Music_stop \/ Music_leave)
        => /\ SessionState(vs'[s]) = SessionState(vs[s])
           /\ voice_states' = voice_states
           /\ cmd' = cmd
           /\ ~raised']_vars

\* C10's case: the player's teardown ran twice on a VoiceState, the second time on
\* a stopped one, and it is still stopped and registered.
C10_Witness ==
    \E s \in Sessions :
        /\ vs[s].timeouts = 2 /\ TeardownDone(s)
        /\ Stopped(s) /\ voice_states = s

\* C11. The pause command pauses the voice client exactly when the VoiceState is
\* playing and the client is playing, the resume command resumes it exactly when
\* the VoiceState is playing and the client is paused; in every other state each
\* leaves the client alone, and neither ever raises.
C11_PauseResumeWhenPlaying ==
    [][/\ Music_pause =>
            /\ ~raised'
            /\ \A s \in Sessions : Exists(s) =>
                  vs'[s].player = IF is_playing(vs[s]) /\ SinkIsPlaying(vs[s])
                                  THEN "paused" ELSE vs[s].player
       /\ Music_resume =>
            /\ ~raised'
            /\ \A s \in Sessions : Exists(s) =>
                  vs'[s].player = IF is_playing(vs[s]) /\ SinkIsPaused(vs[s])
                                  THEN "playing" ELSE vs[s].player]_vars

\* C12. The stop command on the registered VoiceState empties the queue and, if
\* the VoiceState is playing, stops the voice client's player; the voice client
\* stays attached and connected, and the loop flag, the volume and the registry
\* entry are unchanged.
C12_StopKeepsConnection ==
    [][\A s \in Sessions :
        voice_states = s /\ Music_stop =>
            /\ vs'[s].songs = <<>>
            /\ vs'[s].player = IF is_playing(vs[s]) THEN "none" ELSE vs[s].player
            /\ vs'[s].voice = vs[s].voice
            /\ vs'[s].connected = vs[s].connected
            /\ vs'[s].loop = vs[s].loop
            /\ vs'[s].volume = vs[s].volume
            /\ voice_states' = voice_states]_vars

\* C12's case: with Song 1 playing and Song 2 queued, the stop command has stopped
\* the player and emptied the queue, and the voice client is still attached.
C12_Witness ==
    \E s \in Sessions :
        /\ vs[s].halted /\ vs[s].enq = 2 /\ vs[s].plays = <<1>>
        /\ vs[s].songs = <<>> /\ vs[s].player = "none"
        /\ vs[s].voice /\ vs[s].connected /\ voice_states = s

\* C13. After the stop command stopped the Song, and as long as nothing is
\* enqueued, no Song is handed to voice.play again, whatever the loop flag is.
C13_StopStaysStopped ==
    [][\A s \in Sessions :
        vs[s].halted /\ vs'[s].halted => vs'[s].plays = vs[s].plays]_vars

\* C14. The skip command invoked while is_playing is false (no voice client or no
\* current Song) reports that nothing is playing, changes no VoiceState (queue,
\* current Song, loop flag, voice client) and suspends nowhere; and VoiceState.skip(),
\* run after the reaction while is_playing is false, changes nothing either.
C14_SkipWhenNotPlaying ==
    [][/\ Music_skip /\ (voice_states = 0 \/ ~is_playing(vs[voice_states])) =>
            /\ said' = "Not playing any music right now..."
            /\ ~raised'
            /\ cmd' = cmd
            /\ \A s \in Sessions : Exists(s) => vs'[s] = vs[s]
       /\ \A s \in Sessions :
            Music_skip_done(s) /\ ~is_playing(vs[s]) => vs'[s] = vs[s]]_vars

\* C14's case: skip was just refused on a registered VoiceState that has a voice
\* client and a queued Song but no current Song.
C14_Witness ==
    /\ said = "Not playing any music right now..."
    /\ \E s \in Sessions :
          voice_states = s /\ vs[s].voice /\ vs[s].current = 0 /\ vs[s].songs # <<>>

C16_NoCurrentWhenIdle ==
    \A s \in Sessions :
        vs[s].pc = "get" /\ vs[s].player = "none" =>
            vs[s].current = 0 /\ ~is_playing(vs[s])

\* C17. Every enqueued Song is held at most once: the queue holds Songs that were
\* enqueued, each in one slot only, and never the current Song nor a Song that
\* was handed to voice.play. Taking a Song moves it: the current Song changes
\* only to the head of the queue, which leaves the queue in the same step. The
\* queue grows only by one newly enqueued Song at its tail and otherwise only
\* loses Songs or is reordered, so its length is enqueues minus dequeues and removals.
C17_TrackOwnedOnce ==
    /\ [](\A s \in Sessions :
            /\ Cardinality(Range(vs[s].songs)) = Len(vs[s].songs)
            /\ Range(vs[s].songs) \subseteq 1..vs[s].enq
            /\ vs[s].current \notin Range(vs[s].songs)
            /\ Range(vs[s].plays) \cap Range(vs[s].songs) = {})
    /\ [][\A s \in Sessions :
            /\ vs'[s].current # vs[s].current =>
                  /\ vs[s].songs # <<>>
                  /\ vs'[s].current = Head(vs[s].songs)
                  /\ vs'[s].songs = Tail(vs[s].songs)
            /\ vs'[s].enq # vs[s].enq =>
                  /\ vs'[s].enq = vs[s].enq + 1
                  /\ vs'[s].songs = Append(vs[s].songs, vs'[s].enq)
            /\ vs'[s].current = vs[s].current /\ vs'[s].enq = vs[s].enq =>
                  Range(vs'[s].songs) \subseteq Range(vs[s].songs)]_vars

\* C17's case: Song 1 was taken from a queue of three and plays; 2 and 3 are queued.
C17_Witness ==
    \E s \in Sessions :
        /\ vs[s].current = 1 /\ vs[s].player = "playing"
        /\ vs[s].songs = <<2, 3>> /\ vs[s].plays = <<1>>

\* The player task is between voice.play and the end of next.wait().
AfterPlay(s) == vs[s].pc \in {"notify", "report", "wait"}

\* C18. At most one play is outstanding: the voice client has a player only while
\* the player task is between voice.play and next.wait(), with the signal clear;
\* a set signal is that of the play that just ended, not yet observed by the
\* task; the task hands a Song to voice.play only when the client has no player
\* and the signal of its previous play, if it was waiting for one, is set; and
\* the signal is clear again when the new play starts.
C18_OnePlayOutstanding ==
    /\ [](\A s \in Sessions :
            /\ vs[s].player # "none" => AfterPlay(s) /\ ~vs[s].next
            /\ vs[s].next => AfterPlay(s) /\ vs[s].player = "none")
    /\ [][\A s \in Sessions :
            PlayedNow(s) =>
                /\ vs[s].player = "none"
                /\ AfterPlay(s) => vs[s].next
                /\ ~vs'[s].next
                /\ vs'[s].player = "playing"]_vars

\* C18's case: the stop command forced the voice client to stop while the player
\* task was still sending its now-playing message; the signal it set is pending
\* for that play, and no player is left.
C18_Witness ==
    \E s \in Sessions :
        /\ vs[s].halted /\ vs[s].pc = "notify"
        /\ vs[s].next /\ vs[s].player = "none" /\ vs[s].plays = <<1>>

\* C19. Only the player task writes the current Song: no step of a command (its
\* invocation or its resumption after an await: join, leave, stop, skip, loop,
\* play, volume, pause, resume, shuffle, dequeue) changes the current Song of any
\* VoiceState, and the current Song changes only in a step in which the player
\* task reaches voice.play.
C19_OnlyPlayerWritesCurrent ==
    [][\A s \in Sessions :
        /\ invoked' # invoked \/ cmd' # cmd => vs'[s].current = vs[s].current
        /\ vs'[s].current # vs[s].current =>
              /\ vs[s].pc \in {"start", "get", "notify", "report", "wait"}
              /\ vs'[s].pc \in {"notify", "report"}]_vars

\* C19's case: while Song 1 plays, the dequeue command removed the queued Song 2;
\* Song 1 is still current and playing.
C19_Witness ==
    \E s \in Sessions :
        /\ vs[s].removed = {2} /\ vs[s].enq = 2 /\ vs[s].songs = <<>>
        /\ vs[s].current = 1 /\ vs[s].player = "playing" /\ vs[s].plays = <<1>>

\* C20. Every Song in the queue is eventually handed to voice.play, unless a
\* command (stop, leave, dequeue) took it out of the queue, the loop flag keeps
\* another Song playing, a play ended with an error, or the play log or the count
\* of timeouts is at its bound.
C20_NoTrackLost ==
    \A s \in Sessions : \A t \in 1..MaxTracks :
        (t \in Range(vs[s].songs)) ~>
            \/ t \in Range(vs[s].plays)
            \/ t \in vs[s].removed
            \/ vs[s].loop
            \/ vs[s].afterErr
            \/ Played = MaxPlays
            \/ TimedOut = MaxTimeouts

\* C21. When a leave command reaches del self.voice_states[guild.id], the entry
\* is there and is the VoiceState that this leave tore down: the removal neither
\* raises KeyError nor removes another VoiceState registered in the meantime.
C21_LeaveRemovesItsSession ==
    [][\A s \in Sessions :
        Music_leave_done(s) => ~raised' /\ voice_states = s]_vars

====
